---- MODULE Spec2Model ----
(***************************************************************************)
(* beep-evdev: notes and melodies played on the PC speaker by writing      *)
(* SND_TONE events to an evdev device.  Three playback implementations     *)
(* live in the source: the Beep trait on evdev::Device (beep.rs), the      *)
(* Pcspkr wrapper (pcspkr.rs) and Melody::play with the free function      *)
(* beep (lib.rs).                                                          *)
(***************************************************************************)
EXTENDS Integers, Sequences, FiniteSets, TLC

\* ------------------------------------------------------------ bounds
MaxRepeats == 3
MaxNotes == 2
MaxMelodyRepeats == 2
MaxConcRepeats == 2

\* ------------------------------------------------- program constants
DEFAULT_DELAY_MS == 100
DEFAULT_FREQ == 440
DEFAULT_LEN_MS == 200
DEFAULT_REPEATS == 1
FILE == "/dev/input/by-path/platform-pcspkr-event-spkr"
U16Modulus == 65536

\* ----------------------------------------------------- input domains
Threads == {1, 2}
Impls == {"Beep", "Pcspkr", "Lib"}
DevStates == {"present", "missing", "denied"}
Freqs == {0, 440, 40000}
BeepFreqs == {0, 440, 32767, 32768, 65535}
LengthsMs == {10, 1500}
DelaysMs == {10}

\* ------------------------------------------------------- std::time
\* Duration::from_millis: whole seconds and the remaining nanoseconds.
from_millis(ms) ==
    [secs |-> ms \div 1000, nanos |-> (ms % 1000) * 1000000]

ZeroDuration == [secs |-> 0, nanos |-> 0]
DEFAULT_DELAY == from_millis(DEFAULT_DELAY_MS)
DEFAULT_LEN == from_millis(DEFAULT_LEN_MS)

\* ------------------------------------------------------------- Note
NoteNew(f, len, reps, dly) ==
    [frequency |-> f, length |-> len, repeats |-> reps, delay |-> dly]

frequency(n) == n.frequency
length(n) == n.length
repeats(n) == n.repeats
delay(n) == n.delay

NoteDefault == NoteNew(DEFAULT_FREQ, DEFAULT_LEN, DEFAULT_REPEATS, DEFAULT_DELAY)

\* Length and delay handed to new() in each other's place.
NoteFromDurationSwapped(f, len) == NoteNew(f, DEFAULT_DELAY, DEFAULT_REPEATS, len)

\* From<(u16, Duration)> for Note
NoteFromDuration(f, len) == NoteNew(f, len, DEFAULT_REPEATS, DEFAULT_DELAY)

\* From<(u16, u64)> for Note
NoteFromMillis(f, ms) == NoteFromDuration(f, from_millis(ms))

\* ----------------------------------------------------------- Melody
MelodyNew(ns) == ns
as_ref(m) == m
\* The default melody built from an empty slice.
MelodyDefaultEmpty == MelodyNew(<<>>)

\* Default for Melody
MelodyDefault == MelodyNew(<<NoteDefault>>)
MelodyFromVec(ns) == MelodyNew(ns)

\* The melody of the documentation examples, built with the shorthand.
DocFrequencies ==
    <<659, 622, 659, 622, 659, 94, 587, 523, 440, 262, 330, 440, 494, 330,
      415, 494, 523, 330, 659, 622, 659, 622, 659, 494, 587, 523, 440, 262,
      330, 440, 494, 330, 523, 494, 440>>
DocLengthMs == 120
DocMelody ==
    MelodyFromVec([i \in 1..Len(DocFrequencies) |->
                      NoteFromMillis(DocFrequencies[i], DocLengthMs)])

\* ------------------------------------------------------------ evdev
\* `hertz as i16 as i32`: the 16 bits sign-extended.
I32FromU16Wrapping(hertz) ==
    LET bits == hertz % U16Modulus
    IN IF bits >= U16Modulus \div 2 THEN bits - U16Modulus ELSE bits

\* i32::from(u16): the 16 bits zero-extended; bit 31 is clear, so the
\* signed value is the bit pattern itself.
I32FromU16(hertz) == hertz % U16Modulus

\* InputEvent::new(EventType::SOUND, SoundType::SND_TONE.0, value)
InputEvent(type, code, value) == [type |-> type, code |-> code, value |-> value]
ToneEvent(hertz) == InputEvent("SOUND", "SND_TONE", I32FromU16(hertz))

NoError == [kind |-> "none", from |-> "none"]
\* Device::open on a node that is missing or not accessible.
OpenError(d) ==
    [kind |-> IF d = "missing" THEN "NotFound" ELSE "PermissionDenied", from |-> "open"]
\* send_events on a device that went away or refuses the write.
WriteError(d) ==
    [kind |-> IF d = "missing" THEN "NoDevice" ELSE "PermissionDenied", from |-> "write"]

\* --------------------------------------------------- call arguments
\* The notes of the generated melodies: one frequency with every repeat
\* count and a delay that differs from the length, and a silent note.
MelodyNotes ==
    {NoteNew(440, from_millis(10), r, DEFAULT_DELAY) : r \in 0..MaxMelodyRepeats}
        \cup {NoteNew(0, from_millis(10), 1, from_millis(10))}

RECURSIVE SeqsUpTo(_, _)
SeqsUpTo(S, n) ==
    IF n = 0 THEN {<<>>}
    ELSE LET shorter == SeqsUpTo(S, n - 1)
         IN shorter \cup {Append(s, x) : s \in {q \in shorter : Len(q) = n - 1}, x \in S}

MelodyInputs ==
    {MelodyFromVec(ns) : ns \in SeqsUpTo(MelodyNotes, MaxNotes)} \cup {DocMelody}

\* ------------------------------------------------------------ state
VARIABLES
    dev,      \* the speaker's device node: present, missing or access denied
    tone,     \* the payload of the last tone event the device accepted
    log,      \* the tone events the device accepted, with the writing thread
    impl,     \* per thread: the implementation the running call belongs to
    op,       \* per thread: the public operation called
    ctor,     \* per thread: how the played Note was constructed
    notes,    \* per thread: the notes the call plays
    idx,      \* per thread: position of `for note in melody`
    k,        \* per thread: position of `for _ in 1..repeats`
    pc,       \* per thread: the statement the call is at
    trace,    \* per thread: the writes and sleeps the call has performed
    opens,    \* per thread: the Device::open attempts of the call
    raised,   \* per thread: the errors the device produced during the call
    result,   \* per thread: the value the call returned
    before,   \* per thread: whether the speaker was sounding when the call started
    failed,   \* per thread: whether the previous call returned an error
    cycles    \* per thread: the tone-on and the tone-off writes the device accepted

vars == <<dev, tone, log, impl, op, ctor, notes, idx, k, pc, trace, opens, raised, result,
          before, failed, cycles>>

NoCtor == [way |-> "none", frequency |-> 0, ms |-> 0, reps |-> 0, dly |-> 0]
NoResult == [kind |-> "none", err |-> NoError]
Ok == [kind |-> "ok", err |-> NoError]
Err(e) == [kind |-> "err", err |-> e]
Panic(e) == [kind |-> "panic", err |-> e]

NoCycles == [on |-> 0, off |-> 0]

WriteEv(value, n) == [ev |-> "write", hz |-> value, dur |-> ZeroDuration, note |-> n]
SleepEv(d, n) == [ev |-> "sleep", hz |-> 0, dur |-> d, note |-> n]

Init ==
    /\ dev \in DevStates
    /\ tone = 0
    /\ log = <<>>
    /\ impl = [t \in Threads |-> "Beep"]
    /\ op = [t \in Threads |-> "none"]
    /\ ctor = [t \in Threads |-> NoCtor]
    /\ notes = [t \in Threads |-> <<>>]
    /\ idx = [t \in Threads |-> 0]
    /\ k = [t \in Threads |-> 0]
    /\ pc = [t \in Threads |-> "idle"]
    /\ trace = [t \in Threads |-> <<>>]
    /\ opens = [t \in Threads |-> <<>>]
    /\ raised = [t \in Threads |-> <<>>]
    /\ result = [t \in Threads |-> NoResult]
    /\ before = [t \in Threads |-> FALSE]
    /\ failed = [t \in Threads |-> FALSE]
    /\ cycles = [t \in Threads |-> NoCycles]

\* ---------------------------------------------------------- helpers
Goto(t, l) == pc' = [pc EXCEPT ![t] = l]
cur(t) == notes[t][idx[t]]

\* The device takes the event: the speaker switches to its payload.
Accept(t, event) ==
    /\ tone' = event.value
    /\ log' = Append(log, [thr |-> t, event |-> event])
    /\ trace' = [trace EXCEPT ![t] = Append(@, WriteEv(event.value, idx[t]))]
    /\ cycles' = [cycles EXCEPT ![t] =
                    IF pc[t] \in {"on1", "on"} THEN [@ EXCEPT !.on = @ + 1]
                    ELSE IF pc[t] \in {"off1", "off"} THEN [@ EXCEPT !.off = @ + 1]
                    ELSE @]
    /\ UNCHANGED raised

\* The device produces an I/O error and the event is not written.
Refuse(t, event, e) ==
    /\ raised' = [raised EXCEPT ![t] =
                    Append(@, [note |-> idx[t], value |-> event.value, err |-> e])]
    /\ UNCHANGED <<tone, log, trace, cycles>>

\* Device::send_events(&[event]) on an open handle.
send_events(t, event) ==
    IF dev = "present" THEN Accept(t, event) ELSE Refuse(t, event, WriteError(dev))

\* std::thread::sleep(d)
sleep(t, d) ==
    /\ trace' = [trace EXCEPT ![t] = Append(@, SleepEv(d, idx[t]))]
    /\ UNCHANGED <<tone, log, raised, cycles>>

\* The io::Result of the device operation this step performed.
Outcome(t) ==
    IF Len(raised'[t]) > Len(raised[t])
    THEN Err(raised'[t][Len(raised'[t])].err)
    ELSE Ok

\* A call of the public operation returns r to the library's caller.
Return(t, r) ==
    /\ result' = [result EXCEPT ![t] = r]
    /\ Goto(t, "done")

\* An inclusive range `1..=repeats`: one cycle too many.
RangeHasNextInclusive(start, end) == start <= end

\* Range<u16>::next of `1..repeats`: another iteration while start < end.
RangeHasNext(start, end) == start < end

\* ------------------------------------------------------- the callers
Start(t, i, o, c, ns, at, first) ==
    /\ impl' = [impl EXCEPT ![t] = i]
    /\ op' = [op EXCEPT ![t] = o]
    /\ ctor' = [ctor EXCEPT ![t] = c]
    /\ notes' = [notes EXCEPT ![t] = ns]
    /\ idx' = [idx EXCEPT ![t] = first]
    /\ k' = [k EXCEPT ![t] = 0]
    /\ trace' = [trace EXCEPT ![t] = <<>>]
    /\ cycles' = [cycles EXCEPT ![t] = NoCycles]
    /\ opens' = [opens EXCEPT ![t] = <<>>]
    /\ raised' = [raised EXCEPT ![t] = <<>>]
    /\ result' = [result EXCEPT ![t] = NoResult]
    /\ before' = [before EXCEPT ![t] = (tone # 0)]
    /\ Goto(t, at)

Hertz(hz) == [way |-> "hertz", frequency |-> hz, ms |-> 0, reps |-> 0, dly |-> 0]

\* pcspkr.beep(hz) / beep(hz) of the documentation examples
CallBeep(t) ==
    /\ pc[t] = "idle"
    /\ \E i \in Impls, hz \in BeepFreqs : Start(t, i, "beep", Hertz(hz), <<>>, "beep", 0)
    /\ log' = <<>>
    /\ UNCHANGED <<dev, tone, failed>>

\* The ways a caller builds the Note it hands to note(), with the
\* arguments it gave.
BuiltNotes ==
    {[c |-> [way |-> "new", frequency |-> f, ms |-> l, reps |-> r, dly |-> d],
      n |-> NoteNew(f, from_millis(l), r, from_millis(d))] :
         f \in Freqs, l \in LengthsMs, r \in 0..MaxRepeats, d \in DelaysMs}
    \cup {[c |-> [way |-> "millis", frequency |-> f, ms |-> l, reps |-> 0, dly |-> 0],
           n |-> NoteFromMillis(f, l)] : f \in Freqs, l \in LengthsMs}
    \cup {[c |-> [way |-> "duration", frequency |-> f, ms |-> l, reps |-> 0, dly |-> 0],
           n |-> NoteFromDuration(f, from_millis(l))] : f \in Freqs, l \in LengthsMs}
    \cup {[c |-> [way |-> "default", frequency |-> 0, ms |-> 0, reps |-> 0, dly |-> 0],
           n |-> NoteDefault]}

\* device.note(&note)
CallNote(t) ==
    /\ pc[t] = "idle"
    /\ \E i \in {"Beep", "Pcspkr"}, b \in BuiltNotes :
          Start(t, i, "note", b.c, <<b.n>>, "if", 1)
    /\ log' = <<>>
    /\ UNCHANGED <<dev, tone, failed>>

\* The ways a caller builds the Melody it plays: from a vector of notes,
\* or Melody::default().
BuiltMelodies ==
    {[c |-> NoCtor, m |-> m] : m \in MelodyInputs}
    \cup {[c |-> [way |-> "melody_default", frequency |-> 0, ms |-> 0, reps |-> 0, dly |-> 0],
           m |-> MelodyDefault]}

\* device.play(&melody) / melody.play()
CallPlay(t) ==
    /\ pc[t] = "idle"
    /\ \E i \in Impls, b \in BuiltMelodies :
          Start(t, i, "play", b.c, as_ref(b.m), "play_for", 0)
    /\ log' = <<>>
    /\ UNCHANGED <<dev, tone, failed>>

\* The device node disappears, comes back or changes its permissions.
EnvChange ==
    /\ dev' \in DevStates \ {dev}
    /\ UNCHANGED <<tone, log, impl, op, ctor, notes, idx, k, pc, trace, cycles, opens, raised, result, before, failed>>

\* ------------------------------------------------- beep.rs: the trait
\* Beep for Device::beep
BeepBeep(t, hertz) == send_events(t, ToneEvent(hertz))

\* The error of self.beep(..) dropped (`let _ =` instead of `?`).
BeepTryIgnored(t, next) ==
    /\ Goto(t, next)
    /\ UNCHANGED result

\* `self.beep(..)?` inside note: an error returns from note at once.
BeepTry(t, next) ==
    IF Outcome(t).kind = "err"
    THEN /\ result' = [result EXCEPT ![t] = Outcome(t)]
         /\ Goto(t, IF op[t] = "note" THEN "done" ELSE "try")
    ELSE /\ Goto(t, next)
         /\ UNCHANGED result

BeepCall(t) ==
    /\ impl[t] = "Beep" /\ pc[t] = "beep"
    /\ BeepBeep(t, ctor[t].frequency)
    /\ Return(t, Outcome(t))
    /\ UNCHANGED <<dev, impl, op, ctor, notes, idx, k, opens, before, failed>>

\* The first cycle played without the `repeats > 0` test.
BeepNoteIfAlways(t) ==
    /\ impl[t] = "Beep" /\ pc[t] = "if"
    /\ Goto(t, "on1")
    /\ k' = [k EXCEPT ![t] = 1]
    /\ UNCHANGED <<dev, tone, log, impl, op, ctor, notes, idx, trace, cycles, opens, raised, result, before, failed>>

\* `if note.repeats() > 0` and the construction of `1..note.repeats()`
BeepNoteIf(t) ==
    /\ impl[t] = "Beep" /\ pc[t] = "if"
    /\ Goto(t, IF repeats(cur(t)) > 0 THEN "on1" ELSE "for")
    /\ k' = [k EXCEPT ![t] = 1]
    /\ UNCHANGED <<dev, tone, log, impl, op, ctor, notes, idx, trace, cycles, opens, raised, result, before, failed>>

BeepNoteOn1(t) ==
    /\ impl[t] = "Beep" /\ pc[t] = "on1"
    /\ BeepBeep(t, frequency(cur(t)))
    /\ BeepTry(t, "len1")
    /\ UNCHANGED <<dev, impl, op, ctor, notes, idx, k, opens, before, failed>>

BeepNoteLen1(t) ==
    /\ impl[t] = "Beep" /\ pc[t] = "len1"
    /\ sleep(t, length(cur(t)))
    /\ Goto(t, "off1")
    /\ UNCHANGED <<dev, impl, op, ctor, notes, idx, k, opens, result, before, failed>>

BeepNoteOff1(t) ==
    /\ impl[t] = "Beep" /\ pc[t] = "off1"
    /\ BeepBeep(t, 0)
    /\ BeepTry(t, "for")
    /\ UNCHANGED <<dev, impl, op, ctor, notes, idx, k, opens, before, failed>>

\* `for _ in 1..note.repeats()`, and `Ok(())` when the range is used up
BeepNoteFor(t) ==
    /\ impl[t] = "Beep" /\ pc[t] = "for"
    /\ IF RangeHasNext(k[t], repeats(cur(t)))
       THEN /\ k' = [k EXCEPT ![t] = @ + 1]
            /\ Goto(t, "delay")
            /\ UNCHANGED result
       ELSE /\ result' = [result EXCEPT ![t] = Ok]
            /\ Goto(t, IF op[t] = "note" THEN "done" ELSE "try")
            /\ UNCHANGED k
    /\ UNCHANGED <<dev, tone, log, impl, op, ctor, notes, idx, trace, cycles, opens, raised, before, failed>>

BeepNoteDelay(t) ==
    /\ impl[t] = "Beep" /\ pc[t] = "delay"
    /\ sleep(t, delay(cur(t)))
    /\ Goto(t, "on")
    /\ UNCHANGED <<dev, impl, op, ctor, notes, idx, k, opens, result, before, failed>>

BeepNoteOn(t) ==
    /\ impl[t] = "Beep" /\ pc[t] = "on"
    /\ BeepBeep(t, frequency(cur(t)))
    /\ BeepTry(t, "len")
    /\ UNCHANGED <<dev, impl, op, ctor, notes, idx, k, opens, before, failed>>

BeepNoteLen(t) ==
    /\ impl[t] = "Beep" /\ pc[t] = "len"
    /\ sleep(t, length(cur(t)))
    /\ Goto(t, "off")
    /\ UNCHANGED <<dev, impl, op, ctor, notes, idx, k, opens, result, before, failed>>

BeepNoteOff(t) ==
    /\ impl[t] = "Beep" /\ pc[t] = "off"
    /\ BeepBeep(t, 0)
    /\ BeepTry(t, "for")
    /\ UNCHANGED <<dev, impl, op, ctor, notes, idx, k, opens, before, failed>>

\* The loop over the melody stopping one note early.
BeepPlayForShort(t) ==
    /\ impl[t] = "Beep" /\ pc[t] = "play_for"
    /\ IF idx[t] < Len(notes[t]) - 1
       THEN /\ idx' = [idx EXCEPT ![t] = @ + 1]
            /\ Goto(t, "if")
            /\ UNCHANGED result
       ELSE /\ Return(t, Ok)
            /\ UNCHANGED idx
    /\ UNCHANGED <<dev, tone, log, impl, op, ctor, notes, k, trace, cycles, opens, raised, before, failed>>

\* `for note in melody.as_ref()`, and `Ok(())` after the last note
BeepPlayFor(t) ==
    /\ impl[t] = "Beep" /\ pc[t] = "play_for"
    /\ IF idx[t] < Len(notes[t])
       THEN /\ idx' = [idx EXCEPT ![t] = @ + 1]
            /\ Goto(t, "if")
            /\ UNCHANGED result
       ELSE /\ Return(t, Ok)
            /\ UNCHANGED idx
    /\ UNCHANGED <<dev, tone, log, impl, op, ctor, notes, k, trace, cycles, opens, raised, before, failed>>

\* The note's error dropped: play goes on with the next note.
BeepPlayTryIgnored(t) ==
    /\ impl[t] = "Beep" /\ pc[t] = "try"
    /\ result' = [result EXCEPT ![t] = NoResult]
    /\ Goto(t, "play_for")
    /\ UNCHANGED <<dev, tone, log, impl, op, ctor, notes, idx, k, trace, cycles, opens, raised, before, failed>>

\* `self.note(note)?`: the note's error is play's error
BeepPlayTry(t) ==
    /\ impl[t] = "Beep" /\ pc[t] = "try"
    /\ IF result[t].kind = "err"
       THEN /\ Goto(t, "done")
            /\ UNCHANGED result
       ELSE /\ result' = [result EXCEPT ![t] = NoResult]
            /\ Goto(t, "play_for")
    /\ UNCHANGED <<dev, tone, log, impl, op, ctor, notes, idx, k, trace, cycles, opens, raised, before, failed>>

BeepStep(t) ==
    \/ BeepCall(t)
    \/ BeepNoteIf(t)
    \/ BeepNoteOn1(t)
    \/ BeepNoteLen1(t)
    \/ BeepNoteOff1(t)
    \/ BeepNoteFor(t)
    \/ BeepNoteDelay(t)
    \/ BeepNoteOn(t)
    \/ BeepNoteLen(t)
    \/ BeepNoteOff(t)
    \/ BeepPlayFor(t)
    \/ BeepPlayTry(t)

\* ------------------------------------------------- pcspkr.rs: the wrapper
\* Pcspkr::beep (self.device.send_events)
PcspkrBeep(t, hertz) == send_events(t, ToneEvent(hertz))

\* The error of self.beep(..) dropped (`.ok()` instead of `?`).
PcspkrTryIgnored(t, next) ==
    /\ Goto(t, next)
    /\ UNCHANGED result

\* `self.beep(..)?` inside note: an error returns from note at once.
PcspkrTry(t, next) ==
    IF Outcome(t).kind = "err"
    THEN /\ result' = [result EXCEPT ![t] = Outcome(t)]
         /\ Goto(t, IF op[t] = "note" THEN "done" ELSE "try")
    ELSE /\ Goto(t, next)
         /\ UNCHANGED result

PcspkrCall(t) ==
    /\ impl[t] = "Pcspkr" /\ pc[t] = "beep"
    /\ PcspkrBeep(t, ctor[t].frequency)
    /\ Return(t, Outcome(t))
    /\ UNCHANGED <<dev, impl, op, ctor, notes, idx, k, opens, before, failed>>

\* `if note.repeats() > 0` and the construction of `1..note.repeats()`
PcspkrNoteIf(t) ==
    /\ impl[t] = "Pcspkr" /\ pc[t] = "if"
    /\ Goto(t, IF repeats(cur(t)) > 0 THEN "on1" ELSE "for")
    /\ k' = [k EXCEPT ![t] = 1]
    /\ UNCHANGED <<dev, tone, log, impl, op, ctor, notes, idx, trace, cycles, opens, raised, result, before, failed>>

PcspkrNoteOn1(t) ==
    /\ impl[t] = "Pcspkr" /\ pc[t] = "on1"
    /\ PcspkrBeep(t, frequency(cur(t)))
    /\ PcspkrTry(t, "len1")
    /\ UNCHANGED <<dev, impl, op, ctor, notes, idx, k, opens, before, failed>>

PcspkrNoteLen1(t) ==
    /\ impl[t] = "Pcspkr" /\ pc[t] = "len1"
    /\ sleep(t, length(cur(t)))
    /\ Goto(t, "off1")
    /\ UNCHANGED <<dev, impl, op, ctor, notes, idx, k, opens, result, before, failed>>

PcspkrNoteOff1(t) ==
    /\ impl[t] = "Pcspkr" /\ pc[t] = "off1"
    /\ PcspkrBeep(t, 0)
    /\ PcspkrTry(t, "for")
    /\ UNCHANGED <<dev, impl, op, ctor, notes, idx, k, opens, before, failed>>

\* The range never advanced: the loop repeats the cycle for ever.
PcspkrNoteForStuck(t) ==
    /\ impl[t] = "Pcspkr" /\ pc[t] = "for"
    /\ IF RangeHasNext(k[t], repeats(cur(t)))
       THEN /\ Goto(t, "delay")
            /\ UNCHANGED <<k, result>>
       ELSE /\ result' = [result EXCEPT ![t] = Ok]
            /\ Goto(t, IF op[t] = "note" THEN "done" ELSE "try")
            /\ UNCHANGED k
    /\ UNCHANGED <<dev, tone, log, impl, op, ctor, notes, idx, trace, cycles, opens, raised, before, failed>>

\* `for _ in 1..note.repeats()`, and `Ok(())` when the range is used up
PcspkrNoteFor(t) ==
    /\ impl[t] = "Pcspkr" /\ pc[t] = "for"
    /\ IF RangeHasNext(k[t], repeats(cur(t)))
       THEN /\ k' = [k EXCEPT ![t] = @ + 1]
            /\ Goto(t, "delay")
            /\ UNCHANGED result
       ELSE /\ result' = [result EXCEPT ![t] = Ok]
            /\ Goto(t, IF op[t] = "note" THEN "done" ELSE "try")
            /\ UNCHANGED k
    /\ UNCHANGED <<dev, tone, log, impl, op, ctor, notes, idx, trace, cycles, opens, raised, before, failed>>

\* The pause between two cycles as long as the tone.
PcspkrNoteDelayAsLength(t) ==
    /\ impl[t] = "Pcspkr" /\ pc[t] = "delay"
    /\ sleep(t, length(cur(t)))
    /\ Goto(t, "on")
    /\ UNCHANGED <<dev, impl, op, ctor, notes, idx, k, opens, result, before, failed>>

PcspkrNoteDelay(t) ==
    /\ impl[t] = "Pcspkr" /\ pc[t] = "delay"
    /\ sleep(t, delay(cur(t)))
    /\ Goto(t, "on")
    /\ UNCHANGED <<dev, impl, op, ctor, notes, idx, k, opens, result, before, failed>>

PcspkrNoteOn(t) ==
    /\ impl[t] = "Pcspkr" /\ pc[t] = "on"
    /\ PcspkrBeep(t, frequency(cur(t)))
    /\ PcspkrTry(t, "len")
    /\ UNCHANGED <<dev, impl, op, ctor, notes, idx, k, opens, before, failed>>

PcspkrNoteLen(t) ==
    /\ impl[t] = "Pcspkr" /\ pc[t] = "len"
    /\ sleep(t, length(cur(t)))
    /\ Goto(t, "off")
    /\ UNCHANGED <<dev, impl, op, ctor, notes, idx, k, opens, result, before, failed>>

PcspkrNoteOff(t) ==
    /\ impl[t] = "Pcspkr" /\ pc[t] = "off"
    /\ PcspkrBeep(t, 0)
    /\ PcspkrTry(t, "for")
    /\ UNCHANGED <<dev, impl, op, ctor, notes, idx, k, opens, before, failed>>

\* `for note in melody.as_ref()`, and `Ok(())` after the last note
PcspkrPlayFor(t) ==
    /\ impl[t] = "Pcspkr" /\ pc[t] = "play_for"
    /\ IF idx[t] < Len(notes[t])
       THEN /\ idx' = [idx EXCEPT ![t] = @ + 1]
            /\ Goto(t, "if")
            /\ UNCHANGED result
       ELSE /\ Return(t, Ok)
            /\ UNCHANGED idx
    /\ UNCHANGED <<dev, tone, log, impl, op, ctor, notes, k, trace, cycles, opens, raised, before, failed>>

\* `self.note(note)?` of Pcspkr::play
PcspkrPlayTry(t) ==
    /\ impl[t] = "Pcspkr" /\ pc[t] = "try"
    /\ IF result[t].kind = "err"
       THEN /\ Goto(t, "done")
            /\ UNCHANGED result
       ELSE /\ result' = [result EXCEPT ![t] = NoResult]
            /\ Goto(t, "play_for")
    /\ UNCHANGED <<dev, tone, log, impl, op, ctor, notes, idx, k, trace, cycles, opens, raised, before, failed>>

PcspkrStep(t) ==
    \/ PcspkrCall(t)
    \/ PcspkrNoteIf(t)
    \/ PcspkrNoteOn1(t)
    \/ PcspkrNoteLen1(t)
    \/ PcspkrNoteOff1(t)
    \/ PcspkrNoteFor(t)
    \/ PcspkrNoteDelay(t)
    \/ PcspkrNoteOn(t)
    \/ PcspkrNoteLen(t)
    \/ PcspkrNoteOff(t)
    \/ PcspkrPlayFor(t)
    \/ PcspkrPlayTry(t)


\* Pcspkr::default(): Device::open(FILE).expect("failed to open device")
PcspkrDefault(t) ==
    /\ impl[t] = "Pcspkr" /\ pc[t] = "open"
    /\ opens' = [opens EXCEPT ![t] = Append(@, [path |-> FILE, ok |-> dev = "present"])]
    /\ IF dev = "present"
       THEN /\ Return(t, Ok)
            /\ UNCHANGED raised
       ELSE /\ Return(t, Panic(OpenError(dev)))
            /\ raised' = [raised EXCEPT ![t] = Append(@, [note |-> idx[t], err |-> OpenError(dev)])]
    /\ UNCHANGED <<dev, tone, log, impl, op, ctor, notes, idx, k, trace, cycles, before, failed>>

\* Pcspkr::default() of the documentation examples
CallDefault(t) ==
    /\ pc[t] = "idle"
    /\ Start(t, "Pcspkr", "default", NoCtor, <<>>, "open", 0)
    /\ log' = <<>>
    /\ UNCHANGED <<dev, tone, failed>>

\* The caller is done with the returned value.
Drop(t) ==
    /\ pc[t] = "done"
    /\ Start(t, "Beep", "none", NoCtor, <<>>, "idle", 0)
    /\ failed' = [failed EXCEPT ![t] = (result[t].kind \in {"err", "panic"})]
    /\ UNCHANGED <<dev, tone, log>>

\* ------------------------------------- lib.rs: beep and Melody::play
\* The speaker held for a whole cycle: no write while another thread is
\* between its tone-on and its tone-off.
beepLocked(t, hertz) ==
    /\ \A u \in Threads \ {t} : pc[u] \notin {"len1", "off1", "len", "off"}
    /\ opens' = [opens EXCEPT ![t] = Append(@, [path |-> FILE, ok |-> dev = "present"])]
    /\ IF dev = "present"
       THEN \E d \in DevStates :
               /\ dev' = d
               /\ IF d = "present"
                  THEN Accept(t, ToneEvent(hertz))
                  ELSE Refuse(t, ToneEvent(hertz), WriteError(d))
       ELSE /\ dev' = dev
            /\ Refuse(t, ToneEvent(hertz), OpenError(dev))

\* pub fn beep(hertz): Device::open(FILE)?.send_events(..); the device
\* node may change between the open and the write.
beep(t, hertz) ==
    /\ opens' = [opens EXCEPT ![t] = Append(@, [path |-> FILE, ok |-> dev = "present"])]
    /\ IF dev = "present"
       THEN \E d \in DevStates :
               /\ dev' = d
               /\ IF d = "present"
                  THEN Accept(t, ToneEvent(hertz))
                  ELSE Refuse(t, ToneEvent(hertz), WriteError(d))
       ELSE /\ dev' = dev
            /\ Refuse(t, ToneEvent(hertz), OpenError(dev))

\* `beep(..)?` inside Melody::play: an error returns from play at once.
LibTry(t, next) ==
    IF Outcome(t).kind = "err"
    THEN Return(t, Outcome(t))
    ELSE /\ Goto(t, next)
         /\ UNCHANGED result

LibCall(t) ==
    /\ impl[t] = "Lib" /\ pc[t] = "beep"
    /\ beep(t, ctor[t].frequency)
    /\ Return(t, Outcome(t))
    /\ UNCHANGED <<impl, op, ctor, notes, idx, k, before, failed>>

\* `for note in &self.0`, and `Ok(())` after the last note
LibPlayFor(t) ==
    /\ impl[t] = "Lib" /\ pc[t] = "play_for"
    /\ IF idx[t] < Len(notes[t])
       THEN /\ idx' = [idx EXCEPT ![t] = @ + 1]
            /\ Goto(t, "if")
            /\ UNCHANGED result
       ELSE /\ Return(t, Ok)
            /\ UNCHANGED idx
    /\ UNCHANGED <<dev, tone, log, impl, op, ctor, notes, k, trace, cycles, opens, raised, before, failed>>

\* `if note.repeats > 0` and the construction of `1..note.repeats`
LibPlayIf(t) ==
    /\ impl[t] = "Lib" /\ pc[t] = "if"
    /\ Goto(t, IF cur(t).repeats > 0 THEN "on1" ELSE "for")
    /\ k' = [k EXCEPT ![t] = 1]
    /\ UNCHANGED <<dev, tone, log, impl, op, ctor, notes, idx, trace, cycles, opens, raised, result, before, failed>>

LibPlayOn1(t) ==
    /\ impl[t] = "Lib" /\ pc[t] = "on1"
    /\ beep(t, cur(t).frequency)
    /\ LibTry(t, "len1")
    /\ UNCHANGED <<impl, op, ctor, notes, idx, k, before, failed>>

LibPlayLen1(t) ==
    /\ impl[t] = "Lib" /\ pc[t] = "len1"
    /\ sleep(t, cur(t).length)
    /\ Goto(t, "off1")
    /\ UNCHANGED <<dev, impl, op, ctor, notes, idx, k, opens, result, before, failed>>

\* The first cycle without its tone-off.
LibPlayOff1Skipped(t) ==
    /\ impl[t] = "Lib" /\ pc[t] = "off1"
    /\ Goto(t, "for")
    /\ UNCHANGED <<dev, tone, log, impl, op, ctor, notes, idx, k, trace, cycles, opens, raised,
                   result, before, failed>>

LibPlayOff1(t) ==
    /\ impl[t] = "Lib" /\ pc[t] = "off1"
    /\ beep(t, 0)
    /\ LibTry(t, "for")
    /\ UNCHANGED <<impl, op, ctor, notes, idx, k, before, failed>>

\* The delay slept after every cycle, the last one included.
LibPlayInnerForTrailingDelay(t) ==
    /\ impl[t] = "Lib" /\ pc[t] = "for"
    /\ IF RangeHasNext(k[t], cur(t).repeats)
       THEN /\ k' = [k EXCEPT ![t] = @ + 1]
            /\ Goto(t, "delay")
            /\ UNCHANGED trace
       ELSE /\ Goto(t, "play_for")
            /\ trace' = [trace EXCEPT ![t] = Append(@, SleepEv(cur(t).delay, idx[t]))]
            /\ UNCHANGED k
    /\ UNCHANGED <<dev, tone, log, impl, op, ctor, notes, idx, opens, raised, result, before, failed, cycles>>

\* `for _ in 1..note.repeats`; the outer loop goes on when it is used up
LibPlayInnerFor(t) ==
    /\ impl[t] = "Lib" /\ pc[t] = "for"
    /\ IF RangeHasNext(k[t], cur(t).repeats)
       THEN /\ k' = [k EXCEPT ![t] = @ + 1]
            /\ Goto(t, "delay")
       ELSE /\ Goto(t, "play_for")
            /\ UNCHANGED k
    /\ UNCHANGED <<dev, tone, log, impl, op, ctor, notes, idx, trace, cycles, opens, raised, result, before, failed>>

LibPlayDelay(t) ==
    /\ impl[t] = "Lib" /\ pc[t] = "delay"
    /\ sleep(t, cur(t).delay)
    /\ Goto(t, "on")
    /\ UNCHANGED <<dev, impl, op, ctor, notes, idx, k, opens, result, before, failed>>

LibPlayOn(t) ==
    /\ impl[t] = "Lib" /\ pc[t] = "on"
    /\ beep(t, cur(t).frequency)
    /\ LibTry(t, "len")
    /\ UNCHANGED <<impl, op, ctor, notes, idx, k, before, failed>>

LibPlayLen(t) ==
    /\ impl[t] = "Lib" /\ pc[t] = "len"
    /\ sleep(t, cur(t).length)
    /\ Goto(t, "off")
    /\ UNCHANGED <<dev, impl, op, ctor, notes, idx, k, opens, result, before, failed>>

LibPlayOff(t) ==
    /\ impl[t] = "Lib" /\ pc[t] = "off"
    /\ beep(t, 0)
    /\ LibTry(t, "for")
    /\ UNCHANGED <<impl, op, ctor, notes, idx, k, before, failed>>

LibStep(t) ==
    \/ LibCall(t)
    \/ LibPlayFor(t)
    \/ LibPlayIf(t)
    \/ LibPlayOn1(t)
    \/ LibPlayLen1(t)
    \/ LibPlayOff1(t)
    \/ LibPlayInnerFor(t)
    \/ LibPlayDelay(t)
    \/ LibPlayOn(t)
    \/ LibPlayLen(t)
    \/ LibPlayOff(t)

\* ------------------------------------------------- one caller thread
Caller(t) ==
    \/ CallBeep(t)
    \/ CallNote(t)
    \/ CallPlay(t)
    \/ CallDefault(t)
    \/ Drop(t)

Next ==
    \/ EnvChange
    \/ Caller(1)
    \/ BeepStep(1)
    \/ PcspkrStep(1)
    \/ PcspkrDefault(1)
    \/ LibStep(1)

Spec == Init /\ [][Next]_vars

\* Execution is synchronous and blocking: every write and every sleep
\* returns, so a call that has started keeps taking its next step.
Step(t) == BeepStep(t) \/ PcspkrStep(t) \/ PcspkrDefault(t) \/ LibStep(t)

SpecLive == Spec /\ WF_vars(Step(1))

\* ------------------------- two threads playing on the same speaker
ConcFreqs == {440}
ConcNotes ==
    {NoteNew(f, from_millis(10), r, from_millis(10)) : f \in ConcFreqs, r \in 1..MaxConcRepeats}
ConcMelodies == {MelodyNew(<<n>>) : n \in ConcNotes}

\* melody.play() on a thread of its own; the speaker is shared
ConcCallPlay(t) ==
    /\ pc[t] = "idle"
    /\ \E m \in ConcMelodies : Start(t, "Lib", "play", NoCtor, m, "play_for", 0)
    /\ UNCHANGED <<dev, tone, log, failed>>

\* beep(hz) on a thread of its own
ConcCallBeep(t) ==
    /\ pc[t] = "idle"
    /\ \E hz \in ConcFreqs : Start(t, "Lib", "beep", Hertz(hz), <<>>, "beep", 0)
    /\ UNCHANGED <<dev, tone, log, failed>>

NextConc ==
    \/ EnvChange
    \/ \E t \in Threads : ConcCallPlay(t) \/ ConcCallBeep(t) \/ LibStep(t)

SpecConc == Init /\ [][NextConc]_vars

\* ============================================================ claims
WritesOf(tr) ==
    LET w == SelectSeq(tr, LAMBDA e : e.ev = "write")
    IN [j \in 1..Len(w) |-> w[j].hz]

SleepsOf(tr) ==
    LET w == SelectSeq(tr, LAMBDA e : e.ev = "sleep")
    IN [j \in 1..Len(w) |-> w[j].dur]

\* The writes and waits of one Note played without failure, as the
\* specification describes them: on, length, off, then (delay, on,
\* length, off) for every further repeat.
ExpectedNote(n, i) ==
    IF n.repeats = 0 THEN <<>>
    ELSE [p \in 1..(4 * n.repeats - 1) |->
            CASE p % 4 = 1 -> WriteEv(n.frequency, i)
              [] p % 4 = 2 -> SleepEv(n.length, i)
              [] p % 4 = 3 -> WriteEv(0, i)
              [] OTHER -> SleepEv(n.delay, i)]

RECURSIVE ExpectedFrom(_, _)
ExpectedFrom(ns, i) ==
    IF i > Len(ns) THEN <<>> ELSE ExpectedNote(ns[i], i) \o ExpectedFrom(ns, i + 1)

ExpectedMelody(ns) == ExpectedFrom(ns, 1)

\* C1: a note with repeats = R >= 1 played without a failing write issues
\* exactly 2R writes f, 0, f, 0, ..., a wait of the length after every
\* tone-on and R - 1 waits of the delay, each between a tone-off and the
\* next tone-on, none before the first or after the last cycle.
C1_NoteCycles ==
    \A t \in Threads :
        (op[t] = "note" /\ pc[t] = "done" /\ raised[t] = <<>> /\ notes[t][1].repeats >= 1) =>
            LET n == notes[t][1]
                R == n.repeats
                w == WritesOf(trace[t])
                s == SleepsOf(trace[t])
            IN /\ result[t] = Ok
               /\ Len(w) = 2 * R
               /\ \A j \in 1..Len(w) : w[j] = IF j % 2 = 1 THEN n.frequency ELSE 0
               /\ Len(s) = 2 * R - 1
               /\ \A j \in 1..Len(s) : s[j] = IF j % 2 = 1 THEN n.length ELSE n.delay
               /\ Cardinality({j \in 1..Len(s) : j % 2 = 0}) = R - 1
               /\ \A p \in 1..Len(trace[t]) :
                     trace[t][p].ev = IF p % 2 = 1 THEN "write" ELSE "sleep"

C1_Witness ==
    \E t \in Threads :
        /\ op[t] = "note" /\ pc[t] = "done" /\ result[t] = Ok
        /\ notes[t][1].repeats = 3
        /\ WritesOf(trace[t]) = <<440, 0, 440, 0, 440, 0>>
        /\ SleepsOf(trace[t]) =
              <<from_millis(1500), from_millis(10), from_millis(1500), from_millis(10),
                from_millis(1500)>>

\* C2: a note with repeats = 0 causes no device interaction at all, no
\* write and no wait, and returns success whatever the device's state.
C2_ZeroRepeats ==
    \A t \in Threads :
        (op[t] = "note" /\ notes[t][1].repeats = 0) =>
            /\ trace[t] = <<>>
            /\ raised[t] = <<>>
            /\ opens[t] = <<>>
            /\ result[t].kind \in {"none", "ok"}
            /\ pc[t] = "done" => result[t] = Ok

C2_Witness ==
    \E t \in Threads :
        /\ op[t] = "note" /\ pc[t] = "done" /\ result[t] = Ok
        /\ notes[t][1].repeats = 0 /\ notes[t][1].frequency # 0
        /\ dev # "present"
        /\ trace[t] = <<>>

\* C3: a melody played without a failing write issues the concatenation,
\* in melody order, of its notes' traces; an empty melody issues nothing
\* and succeeds.
C3_MelodyConcat ==
    \A t \in Threads :
        (op[t] = "play" /\ pc[t] = "done" /\ raised[t] = <<>>) =>
            /\ result[t] = Ok
            /\ trace[t] = ExpectedMelody(notes[t])
            /\ notes[t] = <<>> => WritesOf(trace[t]) = <<>>

C3_Witness ==
    \E t \in Threads :
        /\ op[t] = "play" /\ pc[t] = "done" /\ result[t] = Ok
        /\ Len(notes[t]) = 2 /\ notes[t][1] = notes[t][2]
        /\ notes[t][1].repeats = 2
        /\ WritesOf(trace[t]) = <<440, 0, 440, 0, 440, 0, 440, 0>>
        /\ Len(SleepsOf(trace[t])) = 6

\* C4: when the playback of the k-th note of a melody fails, no write or
\* wait of a later note ever occurs and play returns the error produced
\* at note k.
C4_MelodyStopsAtFailure ==
    \A t \in Threads :
        (op[t] = "play" /\ raised[t] # <<>>) =>
            LET kth == raised[t][1].note
            IN /\ Len(raised[t]) = 1
               /\ idx[t] = kth
               /\ \A p \in 1..Len(trace[t]) : trace[t][p].note <= kth
               /\ pc[t] \in {"try", "done"}
               /\ result[t] = Err(raised[t][1].err)

C4_Witness ==
    \E t \in Threads :
        /\ op[t] = "play" /\ pc[t] = "done" /\ result[t].kind = "err"
        /\ Len(notes[t]) = 2 /\ raised[t][1].note = 1
        /\ notes[t][2].repeats >= 1
        /\ dev = "present"

\* C5 as stated: the first failing write of a note ends the call with its
\* error, nothing is written or waited for afterwards, and when the
\* failing write is a tone-off the last successful write is non-zero and
\* the speaker is left sounding.
NoteFailed(t) == op[t] = "note" /\ raised[t] # <<>>

NoteEndsAtFailure(t) ==
    LET e == ExpectedNote(notes[t][1], 1)
    IN /\ pc[t] = "done"
       /\ Len(raised[t]) = 1
       /\ result[t] = Err(raised[t][1].err)
       /\ Len(trace[t]) < Len(e)
       /\ trace[t] = SubSeq(e, 1, Len(trace[t]))
       /\ e[Len(trace[t]) + 1].ev = "write"

ToneOffFailed(t) == Len(trace[t]) % 4 = 2

C5_Original ==
    \A t \in Threads :
        NoteFailed(t) =>
            /\ NoteEndsAtFailure(t)
            /\ ToneOffFailed(t) =>
                  /\ trace[t][Len(trace[t]) - 1].hz # 0
                  /\ tone # 0

\* C5 amended: as above, but when the failing write is a tone-off the
\* last successful write is the tone-on carrying the note's frequency f,
\* and the speaker is left sounding exactly when f is not 0.
C5_NoteStopsAtFailure ==
    \A t \in Threads :
        NoteFailed(t) =>
            /\ NoteEndsAtFailure(t)
            /\ ToneOffFailed(t) =>
                  /\ trace[t][Len(trace[t]) - 1] = WriteEv(notes[t][1].frequency, 1)
                  /\ tone = notes[t][1].frequency
                  /\ (tone # 0) <=> (notes[t][1].frequency # 0)

C5_Witness ==
    \E t \in Threads :
        /\ NoteFailed(t) /\ pc[t] = "done" /\ result[t].kind = "err"
        /\ notes[t][1].repeats = 3
        /\ WritesOf(trace[t]) = <<440, 0, 440>>
        /\ tone = 440

\* C6 as stated: a failed open of the device reaches the caller as an I/O
\* error value on every path; the open is not retried and no other path
\* is opened.
OpenFailed(t) == \E j \in 1..Len(opens[t]) : ~opens[t][j].ok

OpenFailureIsFinal(t) ==
    /\ pc[t] = "done"
    /\ \A j \in 1..Len(opens[t]) : opens[t][j].path = FILE
    /\ \A j \in 1..Len(opens[t]) : ~opens[t][j].ok => j = Len(opens[t])
    /\ result[t].err \in {[kind |-> "NotFound", from |-> "open"],
                          [kind |-> "PermissionDenied", from |-> "open"]}

C6_Original ==
    \A t \in Threads :
        OpenFailed(t) => OpenFailureIsFinal(t) /\ result[t].kind = "err"

\* What the code does on a failed open: it is never retried and no other
\* path is opened; beep and Melody::play (lib.rs) return it as an I/O
\* error value, while Pcspkr::default panics with it ("failed to open
\* device") instead of returning an error.
OpenFailureOutcome ==
    \A t \in Threads :
        OpenFailed(t) =>
            /\ OpenFailureIsFinal(t)
            /\ result[t].kind = IF op[t] = "default" THEN "panic" ELSE "err"
            /\ op[t] = "default" <=> impl[t] = "Pcspkr"

OpenFailureReturned ==
    \E t \in Threads :
        /\ impl[t] = "Lib" /\ op[t] = "play" /\ pc[t] = "done"
        /\ result[t] = Err([kind |-> "NotFound", from |-> "open"])
        /\ Len(opens[t]) = 3 /\ opens[t][1].ok /\ opens[t][2].ok /\ ~opens[t][3].ok

\* C7 as stated: the melody of the documentation example has 34 notes,
\* each with repeats = 1, and playing it gives exactly 68 writes, each
\* note's frequency followed by 0, without any delay wait.
PlayedDocMelody(t) ==
    /\ op[t] = "play" /\ pc[t] = "done" /\ raised[t] = <<>>
    /\ [i \in 1..Len(notes[t]) |-> notes[t][i].frequency] = DocFrequencies
    /\ \A i \in 1..Len(notes[t]) : notes[t][i].repeats = 1

DocTrace(t, count) ==
    LET w == WritesOf(trace[t])
        s == SleepsOf(trace[t])
    IN /\ result[t] = Ok
       /\ Len(notes[t]) = count
       /\ Len(w) = 2 * count
       /\ \A j \in 1..Len(w) :
             w[j] = IF j % 2 = 1 THEN DocFrequencies[(j + 1) \div 2] ELSE 0
       /\ Len(s) = count
       /\ \A j \in 1..Len(s) : s[j] = [secs |-> 0, nanos |-> 120000000]
       /\ \A p \in 1..Len(trace[t]) :
             trace[t][p].ev = IF p % 3 = 2 THEN "sleep" ELSE "write"

C7_Original == \A t \in Threads : PlayedDocMelody(t) => DocTrace(t, 34)

\* C7 amended: the melody of the documentation example has 35 notes, each
\* with repeats = 1, and playing it gives exactly 70 writes, each note's
\* frequency followed by 0, without any delay wait.
C7_DocMelody == \A t \in Threads : PlayedDocMelody(t) => DocTrace(t, 35)

C7_Witness ==
    \E t \in Threads :
        /\ PlayedDocMelody(t)
        /\ Len(WritesOf(trace[t])) = 70
        /\ impl[t] = "Lib"

\* C8: two playbacks on the same speaker are not isolated.  Nothing holds
\* the speaker for a thread that is between its tone-on and its tone-off:
\* the other thread's next step, a write included, can always be taken,
\* and the device receives each thread's writes in that thread's order
\* but interleaved in whatever way the threads are scheduled.
MidCycle == {"len1", "off1", "len", "off"}
Running == {"beep", "play_for", "if", "on1", "for", "delay", "on"} \cup MidCycle

WritesBy(t) ==
    LET w == SelectSeq(log, LAMBDA e : e.thr = t)
    IN [j \in 1..Len(w) |-> w[j].event.value]

C8_NotIsolated ==
    \A t \in Threads : \A u \in Threads \ {t} :
        /\ (pc[t] \in MidCycle /\ pc[u] \in Running) => ENABLED LibStep(u)
        /\ WritesBy(t) = WritesOf(trace[t])

\* The device log is one playback's writes followed by the other's.
Serial ==
    \A i \in 1..Len(log) : \A j \in i..Len(log) : \A h \in j..Len(log) :
        log[i].thr = log[h].thr => log[j].thr = log[i].thr

\* Both playbacks succeed, and the tone-off of one landed between the
\* tone-on and the tone-off of the other.
C8_Witness ==
    /\ \A t \in Threads : op[t] = "play" /\ pc[t] = "done" /\ result[t] = Ok
    /\ ~Serial
    /\ [j \in 1..Len(log) |-> <<log[j].thr, log[j].event.value>>] =
          <<<<1, 440>>, <<2, 440>>, <<2, 0>>, <<1, 0>>>>

\* C9: beep(hertz) issues exactly one write, a SOUND/SND_TONE event whose
\* payload is hertz itself for every u16 hertz, never negative, whatever
\* was written before; beep(0) writes payload 0.
C9_EmitTone ==
    \A t \in Threads :
        (op[t] = "beep" /\ pc[t] = "done") =>
            LET hz == ctor[t].frequency
            IN IF result[t] = Ok
               THEN /\ trace[t] = <<WriteEv(hz, 0)>>
                    /\ log = <<[thr |-> t,
                                event |-> [type |-> "SOUND", code |-> "SND_TONE", value |-> hz]]>>
                    /\ tone = hz
                    /\ tone >= 0 /\ tone <= 65535
                    /\ hz = 0 => tone = 0
               ELSE /\ result[t].kind = "err"
                    /\ trace[t] = <<>>
                    /\ log = <<>>

C9_Witness ==
    \E t \in Threads :
        /\ op[t] = "beep" /\ pc[t] = "done" /\ result[t] = Ok
        /\ ctor[t].frequency = 0 /\ before[t]
        /\ tone = 0 /\ Len(log) = 1

\* C10: the (frequency, length) shorthand gives the Note that new gives
\* with repeats = 1 and a delay of 100 ms, the millisecond and the
\* duration shorthand agree, and the accessors return the fields given.
Millis100 == [secs |-> 0, nanos |-> 100000000]

C10_Shorthand ==
    /\ \A t \in Threads :
          (op[t] = "note" /\ ctor[t].way \in {"millis", "duration"}) =>
              LET n == notes[t][1]
                  len == [secs |-> ctor[t].ms \div 1000,
                          nanos |-> (ctor[t].ms % 1000) * 1000000]
              IN /\ n = NoteNew(ctor[t].frequency, len, 1, Millis100)
                 /\ frequency(n) = ctor[t].frequency
                 /\ length(n) = len
                 /\ repeats(n) = 1
                 /\ delay(n) = Millis100
    /\ \A t \in Threads :
          (op[t] = "note" /\ ctor[t].way = "new") =>
              LET n == notes[t][1]
              IN /\ frequency(n) = ctor[t].frequency
                 /\ length(n) = from_millis(ctor[t].ms)
                 /\ repeats(n) = ctor[t].reps
                 /\ delay(n) = from_millis(ctor[t].dly)
    /\ \A f \in Freqs, ms \in LengthsMs :
          NoteFromMillis(f, ms) = NoteFromDuration(f, from_millis(ms))

C10_Witness ==
    \E t \in Threads :
        /\ op[t] = "note" /\ pc[t] = "done" /\ ctor[t].way = "millis"
        /\ ctor[t].ms = 1500 /\ ctor[t].frequency = 40000
        /\ notes[t][1] =
              [frequency |-> 40000, length |-> [secs |-> 1, nanos |-> 500000000],
               repeats |-> 1, delay |-> Millis100]

\* C11: every note call, whatever the repeat count and whichever writes
\* fail, returns (with Ok or with an error) after at most 2 * repeats
\* write attempts; a failure only ends the loop, and a note call made
\* after a failed call starts clean and plays as on a fresh device.
NoteAttempts(t) == Len(WritesOf(trace[t])) + Len(raised[t])

NoteCallBounded(t) ==
    op[t] = "note" =>
        /\ NoteAttempts(t) <= 2 * notes[t][1].repeats
        /\ raised[t] # <<>> => pc[t] = "done" /\ result[t].kind = "err"
        /\ pc[t] = "done" => result[t].kind \in {"ok", "err"}

NoteCallAfterFailure(t) ==
    (op[t] = "note" /\ failed[t]) =>
        /\ pc[t] = "if" => trace[t] = <<>> /\ raised[t] = <<>> /\ result[t] = NoResult
        /\ (pc[t] = "done" /\ raised[t] = <<>>) =>
              result[t] = Ok /\ trace[t] = ExpectedNote(notes[t][1], 1)

C11_NoteTerminates ==
    /\ [](\A t \in Threads : NoteCallBounded(t) /\ NoteCallAfterFailure(t))
    /\ \A t \in Threads : (op[t] = "note") ~> (pc[t] = "done")

C11_Witness ==
    \E t \in Threads :
        /\ op[t] = "note" /\ pc[t] = "done" /\ failed[t]
        /\ result[t] = Ok
        /\ notes[t][1].repeats = 3
        /\ NoteAttempts(t) = 6

\* C12: playing the default Note, or the default Melody, which holds
\* exactly the default Note, issues exactly two writes, 440 then 0, with
\* one wait of 200 ms between them and no wait of 100 ms.
PlayedDefault(t) ==
    /\ \/ op[t] = "note" /\ ctor[t].way = "default"
       \/ op[t] = "play" /\ ctor[t].way = "melody_default"
    /\ pc[t] = "done" /\ raised[t] = <<>>

C12_DefaultPlayback ==
    \A t \in Threads :
        PlayedDefault(t) =>
            /\ result[t] = Ok
            /\ notes[t] =
                  <<[frequency |-> 440, length |-> [secs |-> 0, nanos |-> 200000000],
                     repeats |-> 1, delay |-> [secs |-> 0, nanos |-> 100000000]]>>
            /\ WritesOf(trace[t]) = <<440, 0>>
            /\ SleepsOf(trace[t]) = <<[secs |-> 0, nanos |-> 200000000]>>
            /\ [j \in 1..3 |-> trace[t][j].ev] = <<"write", "sleep", "write">>
            /\ \A j \in 1..Len(trace[t]) :
                  trace[t][j].ev = "sleep" => trace[t][j].dur # [secs |-> 0, nanos |-> 100000000]

C12_Witness ==
    \E t \in Threads :
        /\ PlayedDefault(t) /\ op[t] = "play" /\ result[t] = Ok
        /\ WritesOf(trace[t]) = <<440, 0>>
        /\ Len(trace[t]) = 3

\* ------------------------------------------------------------------
\* Tone-on and tone-off writes of a playback call.
Playback(t) == op[t] \in {"note", "play"}

PlaysACycle(t) == \E i \in 1..Len(notes[t]) : notes[t][i].repeats >= 1

LastWrite(t) == WritesOf(trace[t])[Len(WritesOf(trace[t]))]

Returned(t) == pc[t] = "done"

\* C13: during a note or a melody call the tone-on writes the device
\* accepted exceed the accepted tone-off writes by 0 or 1; a call that
\* returns success after playing at least one cycle wrote 0 last and leaves
\* the speaker silent; a call that wrote and left the speaker sounding
\* returned an error.
C13_OnOffBalance ==
    \A t \in Threads :
        Playback(t) =>
            /\ cycles[t].on - cycles[t].off \in {0, 1}
            /\ cycles[t].on + cycles[t].off = Len(WritesOf(trace[t]))
            /\ (Returned(t) /\ result[t] = Ok /\ PlaysACycle(t)) =>
                   /\ WritesOf(trace[t]) # <<>>
                   /\ LastWrite(t) = 0
                   /\ tone = 0
                   /\ cycles[t].on = cycles[t].off
            /\ (Returned(t) /\ WritesOf(trace[t]) # <<>> /\ tone # 0) =>
                   /\ result[t].kind = "err"
                   /\ cycles[t].on = cycles[t].off + 1

C13_Witness ==
    \E t \in Threads :
        /\ op[t] = "play" /\ Returned(t) /\ result[t] = Ok
        /\ Len(notes[t]) = 2 /\ notes[t][1].repeats = 2 /\ notes[t][2].repeats = 0
        /\ cycles[t] = [on |-> 2, off |-> 2]
        /\ LastWrite(t) = 0 /\ tone = 0

\* A failed call that leaves the speaker sounding: its tone-off was refused.
LeftSounding ==
    \E t \in Threads :
        /\ Playback(t) /\ Returned(t) /\ result[t].kind = "err"
        /\ tone # 0 /\ cycles[t].on = cycles[t].off + 1

\* ------------------------------------------------------------------
\* The first n events of a trace.
Prefix(tr, n) == [p \in 1..n |-> tr[p]]

\* The trace of a melody call together with the write the device refused.
Attempted(t) ==
    trace[t] \o <<WriteEv(raised[t][1].value, raised[t][1].note)>>

\* C14: whenever a write of a melody call fails, the writes and waits the
\* call performed, followed by the write that failed, are the first events
\* of the trace the same melody gives without a failure; before a failure
\* the trace is such a prefix as well, and nothing follows the failure.
C14_FailurePrefix ==
    \A t \in Threads :
        op[t] = "play" =>
            LET full == ExpectedMelody(notes[t])
            IN /\ Len(trace[t]) <= Len(full)
               /\ trace[t] = Prefix(full, Len(trace[t]))
               /\ raised[t] # <<>> =>
                     /\ Len(raised[t]) = 1
                     /\ Len(Attempted(t)) <= Len(full)
                     /\ Attempted(t) = Prefix(full, Len(Attempted(t)))

C14_Witness ==
    \E t \in Threads :
        /\ op[t] = "play" /\ pc[t] = "done" /\ result[t].kind = "err"
        /\ Len(notes[t]) = 2 /\ notes[t][1].repeats = 2 /\ notes[t][2].repeats = 1
        /\ raised[t][1].note = 2 /\ raised[t][1].value = 0
        /\ Len(trace[t]) = 9
        /\ Attempted(t) = Prefix(ExpectedMelody(notes[t]), 10)

\* ------------------------------------------------------------------
\* The write of a melody call the device refused, counted from 1 over the
\* writes the call issued; 0 when none was refused.
FailedAt(t) ==
    IF raised[t] = <<>> THEN 0 ELSE cycles[t].on + cycles[t].off + 1

\* The place of the j-th write in a trace.
WritePos(tr, j) ==
    CHOOSE p \in 1..Len(tr) :
        tr[p].ev = "write" /\ Len(WritesOf(Prefix(tr, p))) = j

\* What a melody call does when its j-th write is refused (j = 0: none
\* is), whichever implementation runs it.
PlayOutcome(ns, j) ==
    LET full == ExpectedMelody(ns)
    IN IF j = 0
       THEN [tr |-> full, kind |-> "ok"]
       ELSE [tr |-> Prefix(full, WritePos(full, j) - 1), kind |-> "err"]

\* C15: for every melody and every refused write, Beep::play on the
\* device, Pcspkr::play and Melody::play of lib.rs perform the same tone
\* payloads and waits and return the same success or error: all of them
\* give PlayOutcome of the melody and of the refused write.
C15_SameOutcome ==
    \A t \in Threads :
        (op[t] = "play" /\ pc[t] = "done") =>
            /\ impl[t] \in {"Beep", "Pcspkr", "Lib"}
            /\ FailedAt(t) <= Len(WritesOf(ExpectedMelody(notes[t])))
            /\ [tr |-> trace[t], kind |-> result[t].kind] = PlayOutcome(notes[t], FailedAt(t))

C15_Witness ==
    \E t \in Threads :
        /\ op[t] = "play" /\ pc[t] = "done" /\ impl[t] = "Lib"
        /\ Len(notes[t]) = 2 /\ notes[t][1].repeats = 1 /\ notes[t][2].repeats = 2
        /\ FailedAt(t) = 5
        /\ result[t] = Err(OpenError("missing"))
        /\ WritesOf(trace[t]) = <<440, 0, 440, 0>>
        /\ Len(SleepsOf(trace[t])) = 3
====
